---- MODULE Spec2Model ----
(***************************************************************************)
(* The JWT access/refresh token lifecycle of the EPOP platform starter:    *)
(* JWTService (lib/auth/jwt), PasswordService (lib/auth/password), the     *)
(* withAuth request gate (lib/auth/middleware), the login route and the    *)
(* browser-side JWTClientManager.                                          *)
(*                                                                         *)
(* Time is counted in whole seconds.  A signed token is modelled by the    *)
(* claims it carries and the secret it was signed with: jwt.sign is        *)
(* deterministic, so two refresh tokens signed in the same clock second    *)
(* are the same string.  Device fingerprint, IP address and user agent are *)
(* opaque values that no branch of the code reads; they are left out.      *)
(***************************************************************************)
EXTENDS Integers, Sequences, FiniteSets, TLC

VARIABLES
    users,           \* table users: id -> row
    refresh_tokens,  \* table refresh_tokens: id -> row
    audit_logs,      \* table audit_logs, in insertion order
    now,             \* the server clock, in seconds
    ticks,           \* how many times the clock has been advanced
    nextId,          \* the next primary key of refresh_tokens (defaultRandom, never reused)
    nextNonce,       \* the next fresh random value (salt, reset-token uuid)
    issued,          \* token pairs handed to clients so far, with their owner
    refreshOk,       \* the refresh tokens refreshTokens has accepted, in order
    revokedBefore,   \* refresh tokens that were issued when their owner's tokens were all revoked
    acct,            \* per user: the run of wrong-password logins and what followed it
    resetIssued,     \* the reset tokens generatePasswordResetToken has returned
    resetOk,         \* the reset tokens resetPassword has accepted, in order
    staleTokens,     \* refresh tokens issued before their owner's password was replaced
    last,            \* the most recent gated request and its response
    procs,           \* server calls in flight, advanced one database round trip at a time
    client           \* one JWTClientManager instance in a browser, and its callers

accountGhost == <<acct, resetIssued, resetOk, staleTokens>>

vars == <<users, refresh_tokens, audit_logs, now, ticks, nextId, nextNonce,
          issued, refreshOk, revokedBefore, accountGhost, last, procs, client>>

(* What the sequential JWTService calls leave alone *)
outsideJwt == <<accountGhost, last, procs, client>>

----------------------------------------------------------------------------
(* Bounds of the exploration *)

MaxRecords == 3
MaxTicks == 2
MaxAudit == 7
MaxNonce == 4
MaxPosts == 2

(* Program constants *)

AccessTTL == 900
RefreshTTL == 604800
LockWindow == 1800
MaxFailedAttempts == 5
ResetTTL == 3600
ExpiryBuffer == 60
RememberMeMaxAge == 2592000
DefaultMaxAge == 604800
DstShift == 3600

NULL == 0 - 1

UserIds == {"u1", "u2"}
GhostUser == "u0"
Passwords == {"Passw0rd!A", "Passw0rd!B"}

JWT_SECRET == "access-secret"
JWT_REFRESH_SECRET == "refresh-secret"

----------------------------------------------------------------------------
(* lib/auth/jwt *)

hashToken(token) == <<"sha256", token>>

generateAccessToken(payload) ==
    [userId |-> payload.userId, email |-> payload.email, role |-> payload.role,
     iat |-> now, exp |-> now + AccessTTL, sig |-> JWT_SECRET]

generateRefreshToken ==
    [type |-> "refresh", iat |-> now, exp |-> now + RefreshTTL, sig |-> JWT_REFRESH_SECRET]

ForgedRefreshToken ==
    [type |-> "refresh", iat |-> 0, exp |-> RefreshTTL, sig |-> "unknown-secret"]

(* verifyRefreshToken with jwt.verify's ignoreExpiration set *)
verifyRefreshToken_ignoresExpiry(token) ==
    IF token.sig # JWT_REFRESH_SECRET THEN "Invalid refresh token" ELSE "ok"

verifyRefreshToken(token) ==
    IF token.sig # JWT_REFRESH_SECRET THEN "Invalid refresh token"
    ELSE IF now >= token.exp THEN "Refresh token expired"
    ELSE "ok"

verifyAccessToken(token) ==
    IF token.sig # JWT_SECRET THEN "Invalid access token"
    ELSE IF now >= token.exp THEN "Access token expired"
    ELSE "ok"

NoToken == [type |-> "none", iat |-> 0, exp |-> 0, sig |-> "none"]
NoAccess == [userId |-> "none", email |-> "none", role |-> "none", iat |-> 0, exp |-> 0,
             sig |-> "none"]
NoPair == [accessToken |-> NoAccess, refreshToken |-> NoToken, expiresIn |-> 0]
NoUser == "none"

(* AuditEntry with oldTokenId left out of the metadata *)
AuditEntry_noRef(actorId, action, success, ref) ==
    [actorId |-> actorId, action |-> action, success |-> success, ref |-> 0]

AuditEntry(actorId, action, success, ref) ==
    [actorId |-> actorId, action |-> action, success |-> success, ref |-> ref]

(* The unique constraints on refresh_tokens.token and refresh_tokens.token_hash *)
UniqueViolation(tbl, token) ==
    \E id \in DOMAIN tbl : tbl[id].token = token \/ tbl[id].tokenHash = hashToken(token)

(* createTokenPair's SELECT on users: the projection (id, email, role), or none *)
NoUserRow == [id |-> NoUser, email |-> "none", role |-> "none"]

(* loadUser answering with a row for every id, stored or not *)
loadUser_anyone(userId) ==
    IF userId \in DOMAIN users
    THEN [id |-> userId, email |-> users[userId].email, role |-> users[userId].role]
    ELSE [id |-> userId, email |-> "none", role |-> "none"]

loadUser(userId) ==
    IF userId \in DOMAIN users
    THEN [id |-> userId, email |-> users[userId].email, role |-> users[userId].role]
    ELSE NoUserRow

(* createTokenPair from the signing of the two tokens to its last audit entry,
   for the loaded user and against the table tbl: the error thrown ("" for
   none), the table and the audit entries it leaves, and the pair it returns. *)
insertTokenPair(user, tbl) ==
    LET accessToken == generateAccessToken(
            [userId |-> user.id, email |-> user.email, role |-> user.role])
        refreshToken == generateRefreshToken
    IN  IF UniqueViolation(tbl, refreshToken)
        THEN [error |-> "duplicate key value violates unique constraint",
              tbl |-> tbl, logs |-> <<>>, pair |-> NoPair, newId |-> 0]
        ELSE [error |-> "",
              tbl |-> tbl @@ (nextId :>
                  [userId |-> user.id, token |-> refreshToken,
                   tokenHash |-> hashToken(refreshToken),
                   expiresAt |-> now + RefreshTTL,
                   isActive |-> TRUE, lastUsedAt |-> NULL]),
              logs |-> <<AuditEntry(user.id, "TOKEN_REFRESH_CREATED", TRUE, 0)>>,
              pair |-> [accessToken |-> accessToken, refreshToken |-> refreshToken,
                        expiresIn |-> 15 * 60],
              newId |-> nextId]

(* createTokenPair run to completion against the table tbl *)
createTokenPairOn(userId, tbl) ==
    IF loadUser(userId) = NoUserRow
    THEN [error |-> "User not found", tbl |-> tbl, logs |-> <<>>, pair |-> NoPair, newId |-> 0]
    ELSE insertTokenPair(loadUser(userId), tbl)

(* The row the SELECT of refreshTokens returns: an active row with the hash, or 0 *)
findActiveByHash(tbl, hash) ==
    LET hits == {id \in DOMAIN tbl : tbl[id].tokenHash = hash /\ tbl[id].isActive}
    IN  IF hits = {} THEN 0 ELSE CHOOSE id \in hits : TRUE

(* UPDATE refresh_tokens SET is_active = false [, last_used_at = now] WHERE id = id *)
(* deactivate with the isActive assignment left out of the UPDATE *)
deactivate_keepsActive(tbl, id, used) ==
    IF id \in DOMAIN tbl
    THEN [tbl EXCEPT ![id] = [@ EXCEPT !.lastUsedAt = IF used THEN now ELSE @]]
    ELSE tbl

(* deactivate with WHERE user_id = the record's owner instead of WHERE id *)
deactivate_allOfOwner(tbl, id, used) ==
    [k \in DOMAIN tbl |->
        IF id \in DOMAIN tbl /\ tbl[k].userId = tbl[id].userId
        THEN [tbl[k] EXCEPT !.isActive = FALSE, !.lastUsedAt = IF used THEN now ELSE @]
        ELSE tbl[k]]

deactivate(tbl, id, used) ==
    IF id \in DOMAIN tbl
    THEN [tbl EXCEPT ![id] = [@ EXCEPT !.isActive = FALSE,
                                       !.lastUsedAt = IF used THEN now ELSE @]]
    ELSE tbl

(* recordExpired with the comparison turned round *)
recordExpired_reversed(row) == row.expiresAt > now

(* tokenRecord.expiresAt < new Date() *)
recordExpired(row) == row.expiresAt < now

(* refreshTokens run to completion against the current tables *)
refreshTokensOutcome(refreshToken) ==
    IF verifyRefreshToken(refreshToken) # "ok"
    THEN [error |-> "Invalid or expired refresh token", tbl |-> refresh_tokens,
          logs |-> <<>>, pair |-> NoPair, newId |-> 0]
    ELSE LET id == findActiveByHash(refresh_tokens, hashToken(refreshToken))
         IN  IF id = 0
             THEN [error |-> "Refresh token not found or inactive", tbl |-> refresh_tokens,
                   logs |-> <<>>, pair |-> NoPair, newId |-> 0]
             ELSE IF recordExpired(refresh_tokens[id])
             THEN [error |-> "Refresh token expired",
                   tbl |-> deactivate(refresh_tokens, id, FALSE),
                   logs |-> <<>>, pair |-> NoPair, newId |-> 0]
             ELSE LET off == deactivate(refresh_tokens, id, TRUE)
                      made == createTokenPairOn(refresh_tokens[id].userId, off)
                  IN  IF made.error # ""
                      THEN [made EXCEPT !.tbl = off]
                      ELSE [made EXCEPT !.logs = made.logs \o
                               <<AuditEntry(refresh_tokens[id].userId, "TOKEN_REFRESHED", TRUE, id)>>]

(* revokeMatches with the first where() kept: the owner is not looked at *)
revokeMatches_anyOwner(tbl, token, userId) ==
    {id \in DOMAIN tbl : tbl[id].tokenHash = hashToken(token)}

(* revokeRefreshToken's UPDATE: the second where() replaces the first *)
revokeMatches(tbl, token, userId) ==
    {id \in DOMAIN tbl :
        /\ tbl[id].tokenHash = hashToken(token)
        /\ (userId # NoUser => tbl[id].userId = userId)}

(* deactivateAll writing the negated flag instead of false *)
deactivateAll_toggles(tbl, ids) ==
    [id \in DOMAIN tbl |->
        IF id \in ids THEN [tbl[id] EXCEPT !.isActive = ~@] ELSE tbl[id]]

deactivateAll(tbl, ids) ==
    [id \in DOMAIN tbl |-> IF id \in ids THEN [tbl[id] EXCEPT !.isActive = FALSE] ELSE tbl[id]]

(* revokeRefreshToken run to completion: the UPDATE, then the throw when
   rowCount is 0 *)
revokeRefreshTokenOutcome(token, userId) ==
    LET ids == revokeMatches(refresh_tokens, token, userId)
    IN  [error |-> IF ids = {} THEN "Refresh token not found" ELSE "",
         tbl |-> deactivateAll(refresh_tokens, ids)]

(* revokeAllOn with the flag in the filter inverted: only inactive rows match *)
revokeAllOn_inactiveOnly(tbl, userId) ==
    deactivateAll(tbl, {id \in DOMAIN tbl : tbl[id].userId = userId /\ ~tbl[id].isActive})

revokeAllOn(tbl, userId) ==
    deactivateAll(tbl, {id \in DOMAIN tbl : tbl[id].userId = userId})

(* purgeable with the isActive condition left out of the WHERE clause *)
purgeable_expiredOnly(tbl) == {id \in DOMAIN tbl : tbl[id].expiresAt < now}

purgeable(tbl) == {id \in DOMAIN tbl : ~tbl[id].isActive /\ tbl[id].expiresAt < now}

----------------------------------------------------------------------------
(* The calls of JWTService, each run to completion (one request at a time) *)

IssuedRefreshTokens == {i.pair.refreshToken : i \in issued}
IssuedTo(userId) == {i.pair.refreshToken : i \in {j \in issued : j.userId = userId}}

createTokenPair(userId) ==
    LET r == createTokenPairOn(userId, refresh_tokens)
    IN  /\ r.error = "" => nextId <= MaxRecords
        /\ refresh_tokens' = r.tbl
        /\ audit_logs' = audit_logs \o r.logs
        /\ nextId' = IF r.newId # 0 THEN nextId + 1 ELSE nextId
        /\ issued' = IF r.error = "" THEN issued \cup {[userId |-> userId, pair |-> r.pair]}
                      ELSE issued
        /\ UNCHANGED <<users, now, ticks, nextNonce, refreshOk, revokedBefore, outsideJwt>>

refreshTokens(refreshToken) ==
    LET r == refreshTokensOutcome(refreshToken)
    IN  /\ r.error = "" => nextId <= MaxRecords
        /\ refresh_tokens' = r.tbl
        /\ audit_logs' = audit_logs \o r.logs
        /\ nextId' = IF r.newId # 0 THEN nextId + 1 ELSE nextId
        /\ issued' = IF r.error = ""
                      THEN issued \cup {[userId |-> r.tbl[r.newId].userId, pair |-> r.pair]}
                      ELSE issued
        /\ refreshOk' = IF r.error = "" THEN Append(refreshOk, refreshToken) ELSE refreshOk
        /\ UNCHANGED <<users, now, ticks, nextNonce, revokedBefore, outsideJwt>>

revokeRefreshToken(token, userId) ==
    /\ refresh_tokens' = deactivateAll(refresh_tokens, revokeMatches(refresh_tokens, token, userId))
    /\ UNCHANGED <<users, audit_logs, now, ticks, nextId, nextNonce, issued,
                   refreshOk, revokedBefore, outsideJwt>>

revokeAllRefreshTokens(userId) ==
    /\ refresh_tokens' = revokeAllOn(refresh_tokens, userId)
    /\ revokedBefore' = revokedBefore \cup IssuedTo(userId)
    /\ UNCHANGED <<users, audit_logs, now, ticks, nextId, nextNonce, issued, refreshOk,
                   outsideJwt>>

cleanupExpiredTokens ==
    /\ refresh_tokens' = [id \in DOMAIN refresh_tokens \ purgeable(refresh_tokens)
                             |-> refresh_tokens[id]]
    /\ UNCHANGED <<users, audit_logs, now, ticks, nextId, nextNonce, issued,
                   refreshOk, revokedBefore, outsideJwt>>

(* The clock moves on by d seconds *)
Tick(d) ==
    /\ ticks < MaxTicks
    /\ now' = now + d
    /\ ticks' = ticks + 1
    /\ UNCHANGED <<users, refresh_tokens, audit_logs, nextId, nextNonce, issued,
                   refreshOk, revokedBefore, accountGhost, last, procs, client>>

----------------------------------------------------------------------------
(* lib/auth/password *)

(* hashPassword with the salt crypto.randomBytes drew; "" stands for the throw *)
hashPassword(password, salt) ==
    [salt |-> salt, derivedKey |-> <<"pbkdf2-sha512", salt, password>>, iterations |-> 100000]

hashPasswordError(password) ==
    IF Len(password) < 8 THEN "Password must be at least 8 characters long"
    ELSE IF Len(password) > 128 THEN "Password must be less than 128 characters long"
    ELSE ""

verifyPassword(password, storedHash) ==
    storedHash.derivedKey = <<"pbkdf2-sha512", storedHash.salt, password>>

(* isUserLocked with the threshold one too high and the window ignored *)
isUserLocked_lateThreshold(userId) ==
    IF userId \notin DOMAIN users THEN FALSE
    ELSE users[userId].failedLoginAttempts > MaxFailedAttempts

isUserLocked(userId) ==
    IF userId \notin DOMAIN users THEN FALSE
    ELSE IF users[userId].lockedUntil # NULL /\ users[userId].lockedUntil > now THEN TRUE
    ELSE users[userId].failedLoginAttempts >= MaxFailedAttempts

(* recordFailedLogin: the row it writes and the audit entry it appends *)
recordFailedLogin(userId) ==
    LET newFailedAttempts == users[userId].failedLoginAttempts + 1
    IN  [users |-> [users EXCEPT ![userId] =
                       [@ EXCEPT !.failedLoginAttempts = newFailedAttempts,
                                 !.lockedUntil = IF newFailedAttempts >= MaxFailedAttempts
                                                 THEN now + LockWindow ELSE @]],
         logs |-> <<AuditEntry(userId, "LOGIN_FAILED", FALSE, newFailedAttempts)>>]

resetFailedLoginAttempts(userId) ==
    [users |-> [users EXCEPT ![userId] =
                   [@ EXCEPT !.failedLoginAttempts = 0, !.lockedUntil = NULL]],
     logs |-> <<AuditEntry(userId, "LOGIN_SUCCESS", TRUE, 0)>>]

NoResetToken == <<"none", 0>>

findUserByEmail(email) ==
    LET hits == {u \in DOMAIN users : users[u].email = email}
    IN  IF hits = {} THEN NoUser ELSE CHOOSE u \in hits : TRUE

findUserByResetToken(resetToken) ==
    LET hits == {u \in DOMAIN users : users[u].passwordResetToken = resetToken}
    IN  IF hits = {} THEN NoUser ELSE CHOOSE u \in hits : TRUE

(* generatePasswordResetToken run to completion, uuid being the random UUID drawn *)
generatePasswordResetTokenOutcome(email, uuid) ==
    LET userId == findUserByEmail(email)
        token == <<"base64", uuid>>
    IN  IF userId = NoUser
        THEN [error |-> "User with this email does not exist", users |-> users,
              logs |-> <<>>, token |-> NoResetToken]
        ELSE [error |-> "",
              users |-> [users EXCEPT ![userId] =
                            [@ EXCEPT !.passwordResetToken = token,
                                      !.passwordResetExpires = now + ResetTTL]],
              logs |-> <<AuditEntry(userId, "PASSWORD_RESET_REQUESTED", TRUE, 0)>>,
              token |-> token]

(* resetPasswordUpdate leaving the reset token and its expiry in place *)
resetPasswordUpdate_keepsToken(row, newPasswordHash) ==
    [row EXCEPT !.passwordHash = newPasswordHash,
                !.failedLoginAttempts = 0,
                !.lockedUntil = NULL]

(* resetPassword's UPDATE of the user row *)
resetPasswordUpdate(row, newPasswordHash) ==
    [row EXCEPT !.passwordHash = newPasswordHash,
                !.passwordResetToken = NoResetToken,
                !.passwordResetExpires = NULL,
                !.failedLoginAttempts = 0,
                !.lockedUntil = NULL]

(* resetPassword run to completion *)
resetPasswordOutcome(resetToken, newPassword, salt) ==
    LET userId == findUserByResetToken(resetToken)
        same == [error |-> "", users |-> users, tbl |-> refresh_tokens, logs |-> <<>>,
                 userId |-> userId]
    IN  IF userId = NoUser
        THEN [same EXCEPT !.error = "Invalid or expired reset token"]
        ELSE IF users[userId].passwordResetExpires = NULL
                \/ users[userId].passwordResetExpires < now
        THEN [same EXCEPT !.error = "Reset token has expired"]
        ELSE IF hashPasswordError(newPassword) # ""
        THEN [same EXCEPT !.error = hashPasswordError(newPassword)]
        ELSE [same EXCEPT
                 !.users = [users EXCEPT ![userId] =
                               resetPasswordUpdate(@, hashPassword(newPassword, salt))],
                 !.logs = <<AuditEntry(userId, "PASSWORD_RESET", TRUE, 0)>>,
                 !.tbl = revokeAllOn(refresh_tokens, userId)]

(* What `const { refreshTokens } = await import('./jwt')` binds: the module
   exports JWTService (and two interfaces), so the name is undefined and the
   call on it throws before any token is touched. *)
jwtModuleExports == {"JWTService"}

changePasswordRevoke(tbl, userId) ==
    IF "refreshTokens" \in jwtModuleExports
    THEN [error |-> "", tbl |-> revokeAllOn(tbl, userId)]
    ELSE [error |-> "TypeError: Cannot read properties of undefined", tbl |-> tbl]

(* changePassword run to completion *)
changePasswordOutcome(userId, currentPassword, newPassword, salt) ==
    LET same == [error |-> "", users |-> users, tbl |-> refresh_tokens, logs |-> <<>>]
    IN  IF userId \notin DOMAIN users
        THEN [same EXCEPT !.error = "User not found"]
        ELSE IF ~verifyPassword(currentPassword, users[userId].passwordHash)
        THEN [same EXCEPT !.error = "Current password is incorrect"]
        ELSE IF hashPasswordError(newPassword) # ""
        THEN [same EXCEPT !.error = hashPasswordError(newPassword)]
        ELSE [error |-> changePasswordRevoke(refresh_tokens, userId).error,
              users |-> [users EXCEPT ![userId].passwordHash =
                            hashPassword(newPassword, salt)],
              tbl |-> changePasswordRevoke(refresh_tokens, userId).tbl,
              logs |-> <<AuditEntry(userId, "PASSWORD_CHANGED", TRUE, 0)>>]

(* The answer to an email no user row carries, with a 404 that names the reason *)
unknownEmailResponse_notFound(same) ==
    [same EXCEPT !.status = 404, !.error = "User not found"]

(* The answer of the login handler to an email no user row carries *)
unknownEmailResponse(same) ==
    [same EXCEPT !.status = 401, !.error = "Invalid email or password"]

(* app/api/auth/login: the handler inside the rate limiter, run to completion *)
loginOutcome(email, password) ==
    LET userId == findUserByEmail(email)
        same == [status |-> 0, error |-> "", code |-> "", users |-> users,
                 tbl |-> refresh_tokens, logs |-> <<>>, pair |-> NoPair, newId |-> 0]
    IN  IF userId = NoUser
        THEN unknownEmailResponse(same)
        ELSE IF isUserLocked(userId)
        THEN [same EXCEPT !.status = 423, !.code = "ACCOUNT_LOCKED",
                          !.error = "Account temporarily locked due to too many failed login attempts. Please try again later."]
        ELSE IF ~verifyPassword(password, users[userId].passwordHash)
        THEN [same EXCEPT !.status = 401, !.error = "Invalid email or password",
                          !.users = recordFailedLogin(userId).users,
                          !.logs = recordFailedLogin(userId).logs]
        ELSE IF users[userId].status # "ACTIVE"
        THEN [same EXCEPT !.status = 403, !.code = "ACCOUNT_INACTIVE",
                          !.error = "Account is not active"]
        ELSE LET made == createTokenPairOn(userId, refresh_tokens)
                 reset == resetFailedLoginAttempts(userId)
             IN  IF made.error # ""
                 THEN [same EXCEPT !.status = 500, !.error = "Login failed",
                                   !.users = reset.users, !.logs = reset.logs]
                 ELSE [same EXCEPT !.status = 200,
                                   !.users = reset.users,
                                   !.logs = reset.logs \o made.logs,
                                   !.tbl = made.tbl, !.pair = made.pair,
                                   !.newId = made.newId]

InitialPassword == "Passw0rd!A"

Procs == {"A", "B"}
NoPasswordHash == [salt |-> 0, derivedKey |-> <<"none", 0, "">>, iterations |-> 0]
IdleProc == [pc |-> "idle", token |-> NoToken, rec |-> 0, userId |-> NoUser, expiresAt |-> 0,
             user |-> NoUserRow, error |-> "", pair |-> NoPair, newId |-> 0,
             resetToken |-> NoResetToken, newPasswordHash |-> NoPasswordHash]

SeedUser(n, email) ==
    [email |-> email, passwordHash |-> hashPassword(InitialPassword, n), role |-> "USER",
     status |-> "ACTIVE", failedLoginAttempts |-> 0, lockedUntil |-> NULL,
     passwordResetToken |-> NoResetToken, passwordResetExpires |-> NULL]

QuietAccount == [streak |-> 0, trippedAt |-> NULL, reset |-> FALSE, touched |-> FALSE]

Callers == {"c1", "c2", "c3"}
NoResult == [settled |-> "pending", value |-> "none"]
IdleCaller == [pc |-> "idle", method |-> "none", awaiting |-> 0, during |-> 0,
               result |-> NoResult, fresh |-> FALSE, requests |-> 0]
IdleClient == [isRefreshing |-> FALSE, refreshPromise |-> 0, promises |-> <<>>,
               callers |-> [c \in Callers |-> IdleCaller], cookie |-> NoAccess]

NoIdentity == [id |-> "none", email |-> "none", role |-> "none"]
NoResponse == [op |-> "none", token |-> NoAccess, status |-> 0, error |-> "", code |-> "",
               invoked |-> FALSE, user |-> NoIdentity]

Init ==
    /\ users = ("u1" :> SeedUser(1, "u1@example.com")) @@ ("u2" :> SeedUser(2, "u2@example.com"))
    /\ refresh_tokens = <<>>
    /\ audit_logs = <<>>
    /\ now = 0
    /\ ticks = 0
    /\ nextId = 1
    /\ nextNonce = 3
    /\ issued = {}
    /\ refreshOk = <<>>
    /\ revokedBefore = {}
    /\ acct = [u \in UserIds |-> QuietAccount]
    /\ resetIssued = {}
    /\ resetOk = <<>>
    /\ staleTokens = {}
    /\ last = NoResponse
    /\ client = IdleClient
    /\ procs = [p \in Procs |-> IdleProc]

TokenInputs == IssuedRefreshTokens \cup {ForgedRefreshToken}

Next ==
    \/ \E u \in UserIds \cup {GhostUser} : createTokenPair(u)
    \/ \E t \in TokenInputs : refreshTokens(t)
    \/ \E t \in TokenInputs, u \in UserIds \cup {NoUser} : revokeRefreshToken(t, u)
    \/ \E u \in UserIds : revokeAllRefreshTokens(u)
    \/ cleanupExpiredTokens
    \/ \E d \in {1, RefreshTTL} : Tick(d)

Spec == Init /\ [][Next]_vars

----------------------------------------------------------------------------
(* Properties of the sequential JWTService (specification Spec) *)

NotFoundOrInactive == "Refresh token not found or inactive"
InvalidOrExpired == "Invalid or expired refresh token"

Range(seq) == {seq[i] : i \in DOMAIN seq}
NoDuplicates(seq) == \A i, j \in DOMAIN seq : seq[i] = seq[j] => i = j

(* C1, as stated: for every issued refresh token at most one refreshTokens call
   succeeds, and in every state reached after that success a refreshTokens call
   with the same token fails with 'Refresh token not found or inactive' and
   issues no pair. *)
C1_SingleUseNotFound ==
    /\ NoDuplicates(refreshOk)
    /\ \A t \in Range(refreshOk) :
          /\ refreshTokensOutcome(t).error = NotFoundOrInactive
          /\ refreshTokensOutcome(t).newId = 0

(* C1, amended: at most one refreshTokens call per token succeeds; every later
   call with it fails and issues no pair, with 'Refresh token not found or
   inactive' while the token's signed expiry has not passed and with 'Invalid
   or expired refresh token' once it has. *)
C1_SingleUse ==
    /\ NoDuplicates(refreshOk)
    /\ \A t \in Range(refreshOk) :
          /\ refreshTokensOutcome(t).error =
                 IF now >= t.exp THEN InvalidOrExpired ELSE NotFoundOrInactive
          /\ refreshTokensOutcome(t).newId = 0
          /\ refreshTokensOutcome(t).pair = NoPair

(* A state after a successful rotation in which the rotated token is still
   within its signed lifetime and its successor is stored *)
C1_Witness ==
    \E t \in Range(refreshOk) :
        /\ now < t.exp
        /\ \E id \in DOMAIN refresh_tokens :
              refresh_tokens[id].token = t /\ ~refresh_tokens[id].isActive
        /\ \E id \in DOMAIN refresh_tokens :
              refresh_tokens[id].token # t /\ refresh_tokens[id].isActive

(* C3: a refresh-token record that is inactive stays inactive for as long as
   it exists: no step sets isActive of an existing record back to true. *)
C3_NeverReactivated ==
    [][\A id \in DOMAIN refresh_tokens :
          (~refresh_tokens[id].isActive /\ id \in DOMAIN refresh_tokens')
              => ~refresh_tokens'[id].isActive]_vars

(* A rotated record (inactive, lastUsedAt set) beside a younger active record
   of the same user *)
C3_Witness ==
    \E id, id2 \in DOMAIN refresh_tokens :
        /\ id < id2
        /\ ~refresh_tokens[id].isActive
        /\ refresh_tokens[id].lastUsedAt # NULL
        /\ refresh_tokens[id2].isActive
        /\ refresh_tokens[id2].userId = refresh_tokens[id].userId

(* C4, as stated: once revokeAllRefreshTokens(u) has run, refreshTokens with a
   token issued to u before it fails with 'Refresh token not found or
   inactive' and inserts no record. *)
C4_RevokedNotFound ==
    \A t \in revokedBefore :
        /\ refreshTokensOutcome(t).error = NotFoundOrInactive
        /\ refreshTokensOutcome(t).tbl = refresh_tokens

(* C4, amended: such a call fails and inserts no record; the error is
   'Refresh token not found or inactive' while the token's signed expiry has
   not passed and 'Invalid or expired refresh token' once it has. *)
C4_RevokedFails ==
    \A t \in revokedBefore :
        /\ refreshTokensOutcome(t).error =
               IF now >= t.exp THEN InvalidOrExpired ELSE NotFoundOrInactive
        /\ refreshTokensOutcome(t).tbl = refresh_tokens
        /\ refreshTokensOutcome(t).newId = 0

(* A token revoked by revokeAllRefreshTokens while unused and unexpired, whose
   owner has since logged in again *)
C4_Witness ==
    \E t \in revokedBefore :
        /\ now < t.exp
        /\ t \notin Range(refreshOk)
        /\ \E id, id2 \in DOMAIN refresh_tokens :
              /\ refresh_tokens[id].token = t
              /\ refresh_tokens[id].lastUsedAt = NULL
              /\ refresh_tokens[id2].userId = refresh_tokens[id].userId
              /\ refresh_tokens[id2].isActive

----------------------------------------------------------------------------
(* Concurrent requests: refreshTokens advanced one await at a time, so that
   the database round trips of two calls interleave (specification SpecRace) *)

raceFrame == <<users, ticks, nextNonce, revokedBefore, accountGhost, last, client>>

Done(p, error) == [procs EXCEPT ![p] = [@ EXCEPT !.pc = "done", !.error = error]]

(* verifyRefreshToken, then the SELECT of the active row by hash *)
refreshSelect(p, refreshToken) ==
    /\ procs[p].pc = "idle"
    /\ LET id == findActiveByHash(refresh_tokens, hashToken(refreshToken))
           me == [procs[p] EXCEPT !.token = refreshToken]
       IN  procs' = [procs EXCEPT ![p] =
               IF verifyRefreshToken(refreshToken) # "ok"
               THEN [me EXCEPT !.pc = "done", !.error = "Invalid or expired refresh token"]
               ELSE IF id = 0
               THEN [me EXCEPT !.pc = "done", !.error = "Refresh token not found or inactive"]
               ELSE [me EXCEPT !.pc = "found", !.rec = id,
                               !.userId = refresh_tokens[id].userId,
                               !.expiresAt = refresh_tokens[id].expiresAt]]
    /\ UNCHANGED <<refresh_tokens, audit_logs, now, nextId, issued, refreshOk, raceFrame>>

(* the expiry check on the row read, then the UPDATE that deactivates it *)
refreshDeactivate(p) ==
    /\ procs[p].pc = "found"
    /\ refresh_tokens' = deactivate(refresh_tokens, procs[p].rec, procs[p].expiresAt >= now)
    /\ procs' = IF procs[p].expiresAt < now
                 THEN Done(p, "Refresh token expired")
                 ELSE [procs EXCEPT ![p].pc = "deactivated"]
    /\ UNCHANGED <<audit_logs, now, nextId, issued, refreshOk, raceFrame>>

(* createTokenPair: the SELECT on users *)
refreshLoadUser(p) ==
    /\ procs[p].pc = "deactivated"
    /\ procs' = IF loadUser(procs[p].userId) = NoUserRow
                 THEN Done(p, "User not found")
                 ELSE [procs EXCEPT ![p] = [@ EXCEPT !.pc = "userLoaded",
                                                     !.user = loadUser(procs[p].userId)]]
    /\ UNCHANGED <<refresh_tokens, audit_logs, now, nextId, issued, refreshOk, raceFrame>>

(* createTokenPair: both tokens are signed, then the INSERT *)
refreshInsert(p) ==
    /\ procs[p].pc = "userLoaded"
    /\ LET r == insertTokenPair(procs[p].user, refresh_tokens)
       IN  /\ r.error = "" => nextId <= MaxRecords
           /\ refresh_tokens' = r.tbl
           /\ nextId' = IF r.newId # 0 THEN nextId + 1 ELSE nextId
           /\ procs' = IF r.error # ""
                        THEN Done(p, r.error)
                        ELSE [procs EXCEPT ![p] = [@ EXCEPT !.pc = "inserted",
                                                            !.pair = r.pair,
                                                            !.newId = r.newId]]
    /\ UNCHANGED <<audit_logs, now, issued, refreshOk, raceFrame>>

(* createTokenPair: the TOKEN_REFRESH_CREATED audit entry *)
refreshAuditCreated(p) ==
    /\ procs[p].pc = "inserted"
    /\ audit_logs' = Append(audit_logs,
                            AuditEntry(procs[p].userId, "TOKEN_REFRESH_CREATED", TRUE, 0))
    /\ procs' = [procs EXCEPT ![p].pc = "created"]
    /\ UNCHANGED <<refresh_tokens, now, nextId, issued, refreshOk, raceFrame>>

(* the TOKEN_REFRESHED audit entry; the pair is returned *)
refreshAuditRefreshed(p) ==
    /\ procs[p].pc = "created"
    /\ audit_logs' = Append(audit_logs,
                            AuditEntry(procs[p].userId, "TOKEN_REFRESHED", TRUE, procs[p].rec))
    /\ procs' = Done(p, "")
    /\ issued' = issued \cup {[userId |-> procs[p].userId, pair |-> procs[p].pair]}
    /\ refreshOk' = Append(refreshOk, procs[p].token)
    /\ UNCHANGED <<refresh_tokens, now, nextId, raceFrame>>

NextRace ==
    \/ \E u \in UserIds : createTokenPair(u)
    \/ \E p \in Procs, t \in TokenInputs : refreshSelect(p, t)
    \/ \E p \in Procs : refreshDeactivate(p)
    \/ \E p \in Procs : refreshLoadUser(p)
    \/ \E p \in Procs : refreshInsert(p)
    \/ \E p \in Procs : refreshAuditCreated(p)
    \/ \E p \in Procs : refreshAuditRefreshed(p)
    \/ \E u \in UserIds : revokeAllRefreshTokens(u)
    \/ Tick(1)

SpecRace == Init /\ [][NextRace]_vars

Returned(p) == procs[p].pc = "done" /\ procs[p].error = ""

(* C2: two refreshTokens calls that present the same refresh token never both
   return a token pair, however their database steps interleave: a single-use
   token never has two descendant records. *)
C2_NoTwoSiblings ==
    \A p, q \in Procs :
        (p # q /\ procs[p].token = procs[q].token /\ Returned(p)) => ~Returned(q)


(* ---------------------------------------------------------------------- *)
(* Accounts: login, lockout, password reset and password change           *)
(* ---------------------------------------------------------------------- *)

Emails == {"u1@example.com", "nobody@example.com"}
NewPasswords == Passwords \cup {"short"}

(* The run of wrong-password logins as a client sees it: a 401 for a known
   user lengthens it, a login let past the password check ends it. *)
afterLogin(a, status) ==
    IF status = 401
    THEN [a EXCEPT !.streak = @ + 1,
                   !.trippedAt = IF a.streak + 1 = MaxFailedAttempts THEN now ELSE @,
                   !.touched = a.streak + 1 # MaxFailedAttempts]
    ELSE IF status \in {200, 500}
    THEN QuietAccount
    ELSE [a EXCEPT !.touched = TRUE]

login(email, password) ==
    LET r == loginOutcome(email, password)
        userId == findUserByEmail(email)
    IN  /\ Len(audit_logs) + Len(r.logs) <= MaxAudit
        /\ r.newId # 0 => nextId <= MaxRecords
        /\ users' = r.users
        /\ refresh_tokens' = r.tbl
        /\ audit_logs' = audit_logs \o r.logs
        /\ nextId' = IF r.newId # 0 THEN nextId + 1 ELSE nextId
        /\ issued' = IF r.newId # 0
                     THEN issued \cup {[userId |-> userId, pair |-> r.pair]}
                     ELSE issued
        /\ acct' = IF userId = NoUser THEN acct
                   ELSE [acct EXCEPT ![userId] = afterLogin(@, r.status)]
        /\ UNCHANGED <<now, ticks, nextNonce, refreshOk, revokedBefore,
                       resetIssued, resetOk, staleTokens, last, procs, client>>

generatePasswordResetToken(email) ==
    LET r == generatePasswordResetTokenOutcome(email, nextNonce)
        userId == findUserByEmail(email)
    IN  /\ Len(audit_logs) + Len(r.logs) <= MaxAudit
        /\ r.error = "" => nextNonce <= MaxNonce
        /\ users' = r.users
        /\ audit_logs' = audit_logs \o r.logs
        /\ nextNonce' = IF r.error = "" THEN nextNonce + 1 ELSE nextNonce
        /\ resetIssued' = IF r.error = ""
                          THEN resetIssued \cup {[token |-> r.token, userId |-> userId,
                                                  expiresAt |-> now + ResetTTL]}
                          ELSE resetIssued
        /\ acct' = IF userId = NoUser THEN acct
                   ELSE [acct EXCEPT ![userId].touched = TRUE]
        /\ UNCHANGED <<refresh_tokens, now, ticks, nextId, issued, refreshOk,
                       revokedBefore, resetOk, staleTokens, last, procs, client>>

ResetInputs == {r.token : r \in resetIssued} \cup {<<"base64", 0>>}

resetPassword(resetToken, newPassword) ==
    LET r == resetPasswordOutcome(resetToken, newPassword, nextNonce)
        changed == r.users # users
    IN  /\ Len(audit_logs) + Len(r.logs) <= MaxAudit
        /\ changed => nextNonce <= MaxNonce
        /\ users' = r.users
        /\ refresh_tokens' = r.tbl
        /\ audit_logs' = audit_logs \o r.logs
        /\ nextNonce' = IF changed THEN nextNonce + 1 ELSE nextNonce
        /\ resetOk' = IF r.error = "" THEN Append(resetOk, resetToken) ELSE resetOk
        /\ staleTokens' = IF changed THEN staleTokens \cup IssuedTo(r.userId)
                          ELSE staleTokens
        /\ acct' = IF r.userId = NoUser THEN acct
                   ELSE [acct EXCEPT ![r.userId] =
                            [@ EXCEPT !.touched = TRUE, !.reset = @ \/ changed]]
        /\ UNCHANGED <<now, ticks, nextId, issued, refreshOk, revokedBefore,
                       resetIssued, last, procs, client>>

changePassword(userId, currentPassword, newPassword) ==
    LET r == changePasswordOutcome(userId, currentPassword, newPassword, nextNonce)
        changed == r.users # users
    IN  /\ Len(audit_logs) + Len(r.logs) <= MaxAudit
        /\ changed => nextNonce <= MaxNonce
        /\ users' = r.users
        /\ refresh_tokens' = r.tbl
        /\ audit_logs' = audit_logs \o r.logs
        /\ nextNonce' = IF changed THEN nextNonce + 1 ELSE nextNonce
        /\ staleTokens' = IF changed THEN staleTokens \cup IssuedTo(userId)
                          ELSE staleTokens
        /\ acct' = [acct EXCEPT ![userId].touched = TRUE]
        /\ UNCHANGED <<now, ticks, nextId, issued, refreshOk, revokedBefore,
                       resetIssued, resetOk, last, procs, client>>

NextAccount ==
    \/ \E email \in Emails, password \in Passwords : login(email, password)
    \/ \E email \in Emails : generatePasswordResetToken(email)
    \/ \E resetToken \in ResetInputs, newPassword \in NewPasswords :
          resetPassword(resetToken, newPassword)
    \/ \E currentPassword \in Passwords, newPassword \in NewPasswords :
          changePassword("u1", currentPassword, newPassword)
    \/ \E d \in {1, LockWindow} : Tick(d)

SpecAccount == Init /\ [][NextAccount]_vars

CorrectPasswords(userId) ==
    {password \in Passwords : verifyPassword(password, users[userId].passwordHash)}

Tripped(userId) == acct[userId].trippedAt # NULL

InLockWindow(userId) == Tripped(userId) /\ now < acct[userId].trippedAt + LockWindow

RejectedAsLocked(r) ==
    r.status = 423 /\ r.code = "ACCOUNT_LOCKED" /\ r.newId = 0 /\ r.tbl = refresh_tokens

(* C6, as stated: once a user has had 5 wrong-password logins in a row with
   no accepted login in between, every login for that user before the lock
   window has elapsed, the correct password included, is answered 423
   ACCOUNT_LOCKED and issues no token pair. *)
C6_LockedForWindow ==
    \A u \in UserIds : InLockWindow(u) =>
        \A password \in Passwords : RejectedAsLocked(loginOutcome(users[u].email, password))

(* C6, amended: the same, as long as no resetPassword for that user has
   succeeded since the run of wrong-password logins began. *)
C6_LockedUntilReset ==
    \A u \in UserIds : (InLockWindow(u) /\ ~acct[u].reset) =>
        \A password \in Passwords : RejectedAsLocked(loginOutcome(users[u].email, password))

(* C6 witness: a second into the lock window, no reset done, the correct
   password is turned away as locked. *)
C6_Witness ==
    \E u \in UserIds :
        /\ InLockWindow(u) /\ ~acct[u].reset /\ now > acct[u].trippedAt
        /\ \E password \in CorrectPasswords(u) :
              loginOutcome(users[u].email, password).status = 423

(* C7: once the 30-minute lock window has elapsed with nothing else done to
   the account, a login with the correct password for an ACTIVE user is no
   longer rejected as locked and succeeds with a token pair. *)
C7_UnlocksAfterWindow ==
    \A u \in UserIds :
        (/\ Tripped(u) /\ ~acct[u].touched
         /\ now >= acct[u].trippedAt + LockWindow
         /\ users[u].status = "ACTIVE") =>
            \A password \in CorrectPasswords(u) :
                LET r == loginOutcome(users[u].email, password)
                IN  r.status # 423 /\ r.status = 200 /\ r.newId # 0

(* C8: a reset token is accepted by resetPassword at most once; once it has
   been accepted, resetPassword with it fails whatever the new password and
   leaves every user row as it was, although the token's hour is not over. *)
C8_ResetTokenSingleUse ==
    /\ NoDuplicates(resetOk)
    /\ \A resetToken \in Range(resetOk), newPassword \in NewPasswords :
          LET r == resetPasswordOutcome(resetToken, newPassword, nextNonce)
          IN  r.error # "" /\ r.users = users /\ r.tbl = refresh_tokens

(* C8 witness: a token that was accepted, its hour not yet over. *)
C8_Witness ==
    \E r \in resetIssued : r.token \in Range(resetOk) /\ now <= r.expiresAt

(* C9: after changePassword or resetPassword has replaced a user's digest,
   no refresh-token record issued to that user before the change is active
   and refreshTokens with such a token fails. *)
C9_OldTokensDead ==
    \A t \in staleTokens :
        /\ findActiveByHash(refresh_tokens, hashToken(t)) = 0
        /\ refreshTokensOutcome(t).error # ""

(* ---------------------------------------------------------------------- *)
(* lib/auth/middleware: the gate withAuth puts in front of a handler      *)
(* ---------------------------------------------------------------------- *)

ForgedAccessToken ==
    [userId |-> "u1", email |-> "u1@example.com", role |-> "ADMIN", iat |-> 0,
     exp |-> RefreshTTL, sig |-> "unknown-secret"]

NoHeader == [scheme |-> "none", token |-> NoAccess]

(* A Bearer header with nothing after the prefix yields the empty string,
   which NoAccess stands for; the cookie is consulted only without a Bearer
   header. *)
extractTokenFromRequest(req) ==
    IF req.authorization.scheme = "Bearer" THEN req.authorization.token
    ELSE req.cookie

(* The catch block: which 401 an error message is turned into *)
authErrorResponse(message) ==
    IF message \in {"Access token expired", "handler: session expired"}
    THEN [status |-> 401, error |-> "Token expired", code |-> "TOKEN_EXPIRED"]
    ELSE [status |-> 401, error |-> "Authentication failed", code |-> ""]

(* attachUser copying the token's claims instead of the row *)
attachUser_fromClaims(token) ==
    [id |-> token.userId, email |-> token.email, role |-> token.role]

(* What is put on req.user, the claims ignored *)
attachUser(token) ==
    [id |-> token.userId, email |-> users[token.userId].email,
     role |-> users[token.userId].role]

(* The function withAuth(handler) resolves to, applied to one request; the
   handler either answers 200 or throws handlerError. *)
withAuthOutcome(req, handlerError) ==
    LET token == extractTokenFromRequest(req)
        none == [status |-> 0, error |-> "", code |-> "", invoked |-> FALSE,
                 user |-> NoIdentity]
        caught(message) == [none EXCEPT !.status = authErrorResponse(message).status,
                                        !.error = authErrorResponse(message).error,
                                        !.code = authErrorResponse(message).code]
    IN  IF token = NoAccess
        THEN [none EXCEPT !.status = 401, !.error = "Authentication required"]
        ELSE IF verifyAccessToken(token) # "ok"
        THEN caught(verifyAccessToken(token))
        ELSE IF token.userId \notin DOMAIN users
        THEN [none EXCEPT !.status = 401, !.error = "User not found"]
        ELSE IF users[token.userId].status # "ACTIVE"
        THEN [none EXCEPT !.status = 403, !.error = "Account is not active"]
        ELSE LET attached == attachUser(token)
             IN  IF handlerError = ""
                 THEN [none EXCEPT !.status = 200, !.invoked = TRUE, !.user = attached]
                 ELSE [caught(handlerError) EXCEPT !.invoked = TRUE, !.user = attached]

AccessInputs == {i.pair.accessToken : i \in issued} \cup {ForgedAccessToken}

Requests ==
    {[authorization |-> [scheme |-> "Bearer", token |-> t], cookie |-> NoAccess] :
        t \in AccessInputs \cup {NoAccess}}
    \cup {[authorization |-> NoHeader, cookie |-> t] : t \in AccessInputs \cup {NoAccess}}
    \cup {[authorization |-> [scheme |-> "Bearer", token |-> NoAccess], cookie |-> t] :
             t \in AccessInputs}

HandlerErrors == {"", "handler: session expired", "handler: boom"}

withAuth(req, handlerError) ==
    LET r == withAuthOutcome(req, handlerError)
    IN  /\ last' = [op |-> "withAuth", token |-> extractTokenFromRequest(req),
                    status |-> r.status, error |-> r.error, code |-> r.code,
                    invoked |-> r.invoked, user |-> r.user]
        /\ UNCHANGED <<users, refresh_tokens, audit_logs, now, ticks, nextId, nextNonce,
                       issued, refreshOk, revokedBefore, accountGhost, procs, client>>

(* The users table changing under the gate: an administrator or a migration
   rewrites a row's status and role. *)
updateUser(userId, status, role) ==
    /\ users' = [users EXCEPT ![userId] = [@ EXCEPT !.status = status, !.role = role]]
    /\ UNCHANGED <<refresh_tokens, audit_logs, now, ticks, nextId, nextNonce, issued,
                   refreshOk, revokedBefore, accountGhost, last, procs, client>>

(* What the expression withAuth(handler) evaluates to: withAuth is declared
   `async function`, so the value is a Promise of the gate, not the gate. *)
withAuthValue == "Promise"

(* POST /api/auth/logout =
   withCors(withRateLimit(10, 60s)(withAuth(logout handler))), one request.
   withCors passes a POST on; withRateLimit answers 429 when the caller's
   counter is full (limited) and otherwise calls what it was given, which
   throws when that is not a function: the request ends as a server error.
   Behind a callable gate the handler revokes the cookie's record for
   req.user.id and answers 200 whether or not the revocation threw. *)
logoutOutcome(req, refreshCookie, limited) ==
    LET none == [status |-> 0, error |-> "", code |-> "", invoked |-> FALSE,
                 user |-> NoIdentity, tbl |-> refresh_tokens]
    IN  IF limited
        THEN [none EXCEPT !.status = 429, !.error = "Too many requests"]
        ELSE IF withAuthValue # "function"
        THEN [none EXCEPT !.status = 500, !.error = "TypeError: handler is not a function"]
        ELSE LET gate == withAuthOutcome(req, "")
             IN  IF ~gate.invoked
                 THEN [none EXCEPT !.status = gate.status, !.error = gate.error,
                                   !.code = gate.code]
                 ELSE [none EXCEPT
                          !.status = 200, !.invoked = TRUE, !.user = gate.user,
                          !.tbl = IF refreshCookie = NoToken THEN refresh_tokens
                                  ELSE deactivateAll(refresh_tokens,
                                          revokeMatches(refresh_tokens, refreshCookie,
                                                        gate.user.id))]

logout(req, refreshCookie, limited) ==
    LET r == logoutOutcome(req, refreshCookie, limited)
    IN  /\ refresh_tokens' = r.tbl
        /\ last' = [op |-> "logout", token |-> extractTokenFromRequest(req),
                    status |-> r.status, error |-> r.error, code |-> r.code,
                    invoked |-> r.invoked, user |-> r.user]
        /\ UNCHANGED <<users, audit_logs, now, ticks, nextId, nextNonce, issued,
                       refreshOk, revokedBefore, accountGhost, procs, client>>

UserStatuses == {"ACTIVE", "INACTIVE", "SUSPENDED"}
UserRoles == {"ADMIN", "USER"}

NextGate ==
    \/ createTokenPair("u1")
    \/ \E status \in UserStatuses, role \in UserRoles : updateUser("u1", status, role)
    \/ \E req \in Requests, handlerError \in HandlerErrors : withAuth(req, handlerError)
    \/ \E req \in Requests, refreshCookie \in IssuedRefreshTokens \cup {NoToken},
           limited \in BOOLEAN : logout(req, refreshCookie, limited)
    \/ \E d \in {1, AccessTTL} : Tick(d)

SpecGate == Init /\ [][NextGate]_vars

CurrentIdentity(userId) ==
    [id |-> userId, email |-> users[userId].email, role |-> users[userId].role]

(* The gate's conditions for letting a request through, and what it attaches *)
GateAdmits(req) ==
    LET token == extractTokenFromRequest(req)
    IN  /\ token # NoAccess
        /\ verifyAccessToken(token) = "ok"
        /\ token.userId \in DOMAIN users
        /\ users[token.userId].status = "ACTIVE"

GateSound(req, handlerError) ==
    LET r == withAuthOutcome(req, handlerError)
        token == extractTokenFromRequest(req)
    IN  /\ r.invoked => GateAdmits(req) /\ r.user = CurrentIdentity(token.userId)
        /\ (/\ token # NoAccess /\ verifyAccessToken(token) = "ok"
            /\ token.userId \in DOMAIN users
            /\ users[token.userId].status # "ACTIVE")
           => (r.status = 403 /\ ~r.invoked)

(* C10, as stated: the handler runs only for an extracted, verified access
   token of a user whose current row is ACTIVE; the attached identity is the
   current row's; a user no longer ACTIVE is rejected although the token is
   unexpired; and no response that rejects the request (401 or 403) leaves
   an identity on it. *)
C10_GateNoIdentityOnRejection ==
    \A req \in Requests, handlerError \in HandlerErrors :
        /\ GateSound(req, handlerError)
        /\ withAuthOutcome(req, handlerError).status \in {401, 403}
           => withAuthOutcome(req, handlerError).user = NoIdentity

(* C10, amended: the same, the last part only for the rejections decided
   before the handler is invoked. *)
C10_GateNoIdentityBeforeHandler ==
    \A req \in Requests, handlerError \in HandlerErrors :
        /\ GateSound(req, handlerError)
        /\ ~withAuthOutcome(req, handlerError).invoked
           => (/\ withAuthOutcome(req, handlerError).user = NoIdentity
               /\ withAuthOutcome(req, handlerError).status \in {401, 403})

(* C10 witness: an unexpired token issued while its user was ACTIVE is
   answered 403 with nothing attached after the user's status changed. *)
C10_Witness ==
    /\ last.op = "withAuth" /\ last.status = 403 /\ ~last.invoked
    /\ last.user = NoIdentity
    /\ last.token \in {i.pair.accessToken : i \in issued}
    /\ verifyAccessToken(last.token) = "ok"
    /\ last.token.role # users[last.token.userId].role

(* ---------------------------------------------------------------------- *)
(* lib/jwt-client: one JWTClientManager instance and its callers          *)
(* ---------------------------------------------------------------------- *)

(* What a method body finds on `this`: the fields and the methods declared
   without `static`.  The cookie helpers are static, so on the instance they
   are undefined and calling one throws. *)
InstanceMembers ==
    {"refreshPromise", "isRefreshing", "refreshAccessToken", "performTokenRefresh",
     "getValidAccessToken", "fetchWithAuth"}

callOnThis(member) ==
    IF member \in InstanceMembers THEN ""
    ELSE "TypeError: this." \o member \o " is not a function"

Fulfilled(value) == [settled |-> "fulfilled", value |-> value]
Rejected(error) == [settled |-> "rejected", value |-> error]

(* A helper called through `this` inside performTokenRefresh's try block: the
   throw lands in the catch block, whose own this.clearTokens() call decides
   how the promise ends. *)
viaThis(member, value) ==
    IF callOnThis(member) = "" THEN Fulfilled(value)
    ELSE IF callOnThis("clearTokens") = "" THEN Fulfilled("null")
    ELSE Rejected(callOnThis("clearTokens"))

(* performTokenRefresh from the answer to its POST to the end *)
performTokenRefreshOutcome(response) ==
    IF response = "network error" THEN viaThis("clearTokens", "null")
    ELSE IF response = "not ok" THEN viaThis("clearTokens", "null")
    ELSE IF response = "ok with tokenPair" THEN viaThis("storeTokenPair", "tokenPair")
    ELSE Fulfilled("null")

Responses == {"network error", "not ok", "ok with tokenPair", "ok without tokenPair"}

Pending == {p \in DOMAIN client.promises : client.promises[p].settled = "pending"}

(* The caller that started a refresh registered its await on the promise
   before anyone else could: when the promise settles, its continuation is
   the first job on the microtask queue, ahead of any later call into the
   manager and of every caller that joined. *)
OwnerReactionQueued ==
    \E c \in Callers :
        client.callers[c].pc = "owner" /\ client.callers[c].awaiting \notin Pending

(* refreshAccessToken up to its first suspension: join the promise in flight,
   or raise the flag, start performTokenRefresh (which issues the POST before
   it suspends) and await it. *)
refreshAccessToken(c) ==
    /\ client.callers[c].pc = "idle"
    /\ ~OwnerReactionQueued
    /\ IF client.isRefreshing /\ client.refreshPromise # 0
       THEN client' = [client EXCEPT
                !.callers[c] = [IdleCaller EXCEPT !.pc = "joined",
                                                  !.method = "refreshAccessToken",
                                                  !.awaiting = client.refreshPromise,
                                                  !.during = client.refreshPromise]]
       ELSE /\ Len(client.promises) < MaxPosts
            /\ client' = [client EXCEPT
                !.isRefreshing = TRUE,
                !.refreshPromise = Len(client.promises) + 1,
                !.promises = Append(@, NoResult),
                !.callers[c] = [IdleCaller EXCEPT !.pc = "owner",
                                                  !.method = "refreshAccessToken",
                                                  !.awaiting = Len(client.promises) + 1]]
    /\ UNCHANGED <<users, refresh_tokens, audit_logs, now, ticks, nextId, nextNonce,
                   issued, refreshOk, revokedBefore, accountGhost, last, procs>>

(* The refresh endpoint answers (or the network fails) and performTokenRefresh
   runs to its end, settling the promise. *)
performTokenRefresh(p, response) ==
    /\ p \in Pending
    /\ client' = [client EXCEPT !.promises[p] = performTokenRefreshOutcome(response)]
    /\ UNCHANGED <<users, refresh_tokens, audit_logs, now, ticks, nextId, nextNonce,
                   issued, refreshOk, revokedBefore, accountGhost, last, procs>>

(* resume with the finally block left out *)
resume_withoutFinally(c) ==
    LET me == client.callers[c]
    IN  /\ me.pc \in {"owner", "joined"}
        /\ me.awaiting \notin Pending
        /\ me.pc = "joined" => ~OwnerReactionQueued
        /\ client' = [client EXCEPT
              !.callers[c] = [me EXCEPT !.pc = "done",
                                        !.result = client.promises[me.awaiting]]]
        /\ UNCHANGED <<users, refresh_tokens, audit_logs, now, ticks, nextId, nextNonce,
                       issued, refreshOk, revokedBefore, accountGhost, last, procs>>

(* A suspended refreshAccessToken caller continues once its promise has
   settled; the one that started the refresh runs the finally block. *)
resume(c) ==
    LET me == client.callers[c]
    IN  /\ me.pc \in {"owner", "joined"}
        /\ me.awaiting \notin Pending
        /\ me.pc = "joined" => ~OwnerReactionQueued
        /\ client' = [client EXCEPT
              !.isRefreshing = IF me.pc = "owner" THEN FALSE ELSE @,
              !.refreshPromise = IF me.pc = "owner" THEN 0 ELSE @,
              !.callers[c] = [me EXCEPT !.pc = "done",
                                        !.result = client.promises[me.awaiting]]]
        /\ UNCHANGED <<users, refresh_tokens, audit_logs, now, ticks, nextId, nextNonce,
                       issued, refreshOk, revokedBefore, accountGhost, last, procs>>

(* isTokenExpired: decodeToken yields null for a token past its exp, and a
   decoded token counts as expired from bufferSeconds before its exp on. *)
isTokenExpired(token, bufferSeconds) ==
    token.exp < now \/ token.exp <= now + bufferSeconds

(* getValidAccessToken up to the point where it would start a refresh
   (NoResult); its first statement is this.getAccessToken(). *)
getValidAccessTokenOutcome ==
    IF callOnThis("getAccessToken") # "" THEN Rejected(callOnThis("getAccessToken"))
    ELSE IF client.cookie = NoAccess THEN Fulfilled("null")
    ELSE IF callOnThis("isTokenExpired") # "" THEN Rejected(callOnThis("isTokenExpired"))
    ELSE IF ~isTokenExpired(client.cookie, ExpiryBuffer) THEN Fulfilled("stored access token")
    ELSE NoResult

getValidAccessToken(c) ==
    /\ client.callers[c].pc = "idle"
    /\ getValidAccessTokenOutcome # NoResult
    /\ client' = [client EXCEPT
          !.callers[c] = [IdleCaller EXCEPT
                             !.pc = "done", !.method = "getValidAccessToken",
                             !.during = IF client.refreshPromise \in Pending
                                        THEN client.refreshPromise ELSE 0,
                             !.fresh = client.cookie # NoAccess
                                       /\ client.cookie.exp > now + ExpiryBuffer,
                             !.result = getValidAccessTokenOutcome]]
    /\ UNCHANGED <<users, refresh_tokens, audit_logs, now, ticks, nextId, nextNonce,
                   issued, refreshOk, revokedBefore, accountGhost, last, procs>>

(* fetchWithAuth run to completion: tokenResult is how getValidAccessToken ended,
   firstStatus and retryStatus what the server answers, refreshed how the
   refresh after a 401 ended. *)
fetchWithAuthOutcome(tokenResult, firstStatus, refreshed, retryStatus) ==
    IF tokenResult.settled = "rejected"
    THEN [result |-> tokenResult, requests |-> 0]
    ELSE IF firstStatus = "401" /\ tokenResult.value # "null"
    THEN IF refreshed.settled = "rejected" THEN [result |-> refreshed, requests |-> 1]
         ELSE IF refreshed.value # "null"
         THEN [result |-> Fulfilled(retryStatus), requests |-> 2]
         ELSE [result |-> Fulfilled(firstStatus), requests |-> 1]
    ELSE [result |-> Fulfilled(firstStatus), requests |-> 1]

Statuses == {"200", "401"}

fetchWithAuth(c, firstStatus, response, retryStatus) ==
    LET r == fetchWithAuthOutcome(getValidAccessTokenOutcome, firstStatus,
                                  performTokenRefreshOutcome(response), retryStatus)
    IN  /\ client.callers[c].pc = "idle"
        /\ getValidAccessTokenOutcome # NoResult
        /\ client' = [client EXCEPT
              !.callers[c] = [IdleCaller EXCEPT
                                 !.pc = "done", !.method = "fetchWithAuth",
                                 !.result = r.result, !.requests = r.requests]]
        /\ UNCHANGED <<users, refresh_tokens, audit_logs, now, ticks, nextId, nextNonce,
                       issued, refreshOk, revokedBefore, accountGhost, last, procs>>

(* JWTClientManager.storeTokenPair, called on the class by application code
   after a login: the access token of the pair becomes the cookie. *)
storeTokenPair ==
    /\ client' = [client EXCEPT !.cookie =
          generateAccessToken([userId |-> "u1", email |-> "u1@example.com",
                               role |-> "USER"])]
    /\ UNCHANGED <<users, refresh_tokens, audit_logs, now, ticks, nextId, nextNonce,
                   issued, refreshOk, revokedBefore, accountGhost, last, procs>>

NextClient ==
    \/ \E c \in Callers : refreshAccessToken(c)
    \/ \E p \in Pending, response \in Responses : performTokenRefresh(p, response)
    \/ \E c \in Callers : resume(c)
    \/ \E c \in Callers : getValidAccessToken(c)
    \/ \E c \in Callers, firstStatus \in Statuses, response \in Responses,
          retryStatus \in Statuses : fetchWithAuth(c, firstStatus, response, retryStatus)
    \/ storeTokenPair
    \/ \E d \in {1, AccessTTL} : Tick(d)

SpecClient == Init /\ [][NextClient]_vars

(* C5: at most one POST to the refresh endpoint is in flight, and every
   getValidAccessToken()/refreshAccessToken() call made while a refresh is
   in flight waits for that refresh and ends with its result. *)
C5_CallersShareRefresh ==
    /\ Cardinality(Pending) <= 1
    /\ \A c \in Callers :
          (client.callers[c].pc = "done" /\ client.callers[c].during # 0) =>
              /\ client.callers[c].during \notin Pending
              /\ client.callers[c].result = client.promises[client.callers[c].during]

(* C11: every fetchWithAuth call ends with a response, having sent the
   initial request and at most one retry: one or two requests in all. *)
C11_AtMostOneRetry ==
    \A c \in Callers :
        (client.callers[c].pc = "done" /\ client.callers[c].method = "fetchWithAuth") =>
            /\ client.callers[c].result.settled = "fulfilled"
            /\ client.callers[c].result.value \in Statuses
            /\ client.callers[c].requests \in {1, 2}

(* C12: getValidAccessToken never rejects, and when the stored token's exp
   is more than the 60 s buffer away it resolves to that token. *)
C12_StoredTokenOrRefresh ==
    \A c \in Callers :
        (client.callers[c].pc = "done"
         /\ client.callers[c].method = "getValidAccessToken") =>
            /\ client.callers[c].result.settled # "rejected"
            /\ client.callers[c].fresh =>
                   client.callers[c].result = Fulfilled("stored access token")

(* What a client sees of a login: the status and the JSON body *)
LoginResponse(r) == [status |-> r.status, error |-> r.error, code |-> r.code]

UnknownEmail == "nobody@example.com"

WrongPasswords(userId) == Passwords \ CorrectPasswords(userId)

(* C13, as stated: in every reachable state a login with an email that has
   no account is answered exactly as a login with an existing account's
   email and a wrong password. *)
C13_SameAsUnknownEmail ==
    \A u \in UserIds : \A password \in WrongPasswords(u) :
        LoginResponse(loginOutcome(users[u].email, password))
            = LoginResponse(loginOutcome(UnknownEmail, password))

(* C13, amended: the two answers are equal as long as the existing account
   is not locked. *)
C13_SameUnlessLocked ==
    \A u \in UserIds : \A password \in WrongPasswords(u) :
        ~isUserLocked(u) =>
            LoginResponse(loginOutcome(users[u].email, password))
                = LoginResponse(loginOutcome(UnknownEmail, password))

(* C13 witness: an account with wrong-password logins behind it, not yet
   locked, whose next wrong password is answered 401 like an unknown email. *)
C13_Witness ==
    \E u \in UserIds : \E password \in WrongPasswords(u) :
        /\ users[u].failedLoginAttempts > 0
        /\ ~isUserLocked(u)
        /\ loginOutcome(users[u].email, password).status = 401
        /\ loginOutcome(UnknownEmail, password).status = 401

(* app/api/auth/password/request: the handler inside the rate limiter, for
   a body that passes validation.  generatePasswordResetToken throws for an
   email without a user row, and the inner catch answers in its place. *)
passwordResetRequestOutcome(email, uuid, isDevelopment) ==
    LET made == generatePasswordResetTokenOutcome(email, uuid)
    IN  IF made.error # ""
        THEN [status |-> 200,
              message |-> "If an account with this email exists, a password reset link has been sent",
              resetToken |-> NoResetToken, users |-> made.users, logs |-> made.logs]
        ELSE [status |-> 200,
              message |-> "Password reset link sent to your email",
              resetToken |-> IF isDevelopment THEN made.token ELSE NoResetToken,
              users |-> made.users, logs |-> made.logs]

(* What a client sees of a reset request: the status and the JSON body *)
ResetRequestResponse(r) ==
    [status |-> r.status, message |-> r.message, resetToken |-> r.resetToken]

(* C14: a reset request for an email with an account is answered exactly as
   one for an email without, in development and in production. *)
C14_SameResetRequestResponse ==
    \A u \in UserIds, isDevelopment \in BOOLEAN :
        ResetRequestResponse(
            passwordResetRequestOutcome(users[u].email, nextNonce, isDevelopment))
        = ResetRequestResponse(
            passwordResetRequestOutcome(UnknownEmail, nextNonce, isDevelopment))

(* ---------------------------------------------------------------------- *)
(* app/api/auth/refresh: what the route makes of refreshTokens' errors    *)
(* ---------------------------------------------------------------------- *)

(* String.prototype.includes, case-sensitive as in JavaScript *)
includes(message, needle) ==
    \E i \in 1..(Len(message) - Len(needle) + 1) :
        SubSeq(message, i, i + Len(needle) - 1) = needle

(* The catch block of the refresh route *)
refreshErrorResponse(message) ==
    IF includes(message, "expired")
    THEN [status |-> 401, code |-> "TOKEN_EXPIRED"]
    ELSE IF includes(message, "invalid") \/ includes(message, "not found")
            \/ includes(message, "verification failed")
    THEN [status |-> 401, code |-> "INVALID_TOKEN"]
    ELSE IF includes(message, "not active") \/ includes(message, "revoked")
    THEN [status |-> 401, code |-> "SESSION_REVOKED"]
    ELSE [status |-> 500, code |-> "REFRESH_FAILED"]

(* The refresh route for a request that carries refreshToken *)
refreshRouteOutcome(refreshToken) ==
    IF refreshTokensOutcome(refreshToken).error = ""
    THEN [status |-> 200, code |-> ""]
    ELSE refreshErrorResponse(refreshTokensOutcome(refreshToken).error)

(* Why a presented token cannot be refreshed, read off the token and the table *)
FailureKind(t) ==
    IF t.sig # JWT_REFRESH_SECRET THEN "Invalid"
    ELSE IF now >= t.exp THEN "Expired"
    ELSE IF findActiveByHash(refresh_tokens, hashToken(t)) = 0 THEN "NotFoundOrInactive"
    ELSE "none"

(* C15: tokens that fail for different reasons (signed expiry passed,
   wrongly signed, no active record) get different errors from
   refreshTokens and different codes from the refresh route. *)
C15_FailuresKeptDistinct ==
    \A t1, t2 \in TokenInputs :
        (/\ FailureKind(t1) # "none" /\ FailureKind(t2) # "none"
         /\ FailureKind(t1) # FailureKind(t2)) =>
            /\ refreshTokensOutcome(t1).error # refreshTokensOutcome(t2).error
            /\ refreshRouteOutcome(t1).code # refreshRouteOutcome(t2).code

(* A step inserted a refresh-token record or changed one that it kept *)
TokenStoreWritten ==
    \E id \in DOMAIN refresh_tokens' :
        id \notin DOMAIN refresh_tokens \/ refresh_tokens'[id] # refresh_tokens[id]

(* C16: every JWTService or account operation that writes a user row or a
   refresh-token record (issuance, rotation, revocation of one token or of
   all, login, password change, reset) appends at least one audit entry. *)
C16_EveryWriteAudited ==
    [][(TokenStoreWritten \/ users' # users) => Len(audit_logs') > Len(audit_logs)]_vars

(* The login handler's refresh_token cookie: rememberMe reaches nothing but
   the cookie's max-age; createTokenPair is called without it. *)
refreshCookieMaxAge(rememberMe) ==
    IF rememberMe THEN RememberMeMaxAge ELSE DefaultMaxAge

HasActiveRecord(t) == findActiveByHash(refresh_tokens, hashToken(t)) # 0

(* C17: a refresh token handed out with the remember-me cookie is still
   accepted by refreshTokens more than 7 and less than 30 days after it was
   issued, as long as its record is active. *)
C17_RememberMeAccepted ==
    \A i \in issued :
        LET t == i.pair.refreshToken
        IN  (/\ HasActiveRecord(t)
             /\ now > t.iat + refreshCookieMaxAge(FALSE)
             /\ now < t.iat + refreshCookieMaxAge(TRUE))
                => refreshTokensOutcome(t).error = ""

(* C18: whenever the logout endpoint has been called, not rate limited, with
   an access token the gate admits and a refresh cookie issued to that
   token's user, the cookie's record is inactive afterwards and refreshTokens
   with it fails as not found or inactive. *)
C18_LogoutRevokes ==
    \A i \in issued :
        LET req == [authorization |-> [scheme |-> "Bearer", token |-> i.pair.accessToken],
                    cookie |-> NoAccess]
            t == i.pair.refreshToken
        IN  (/\ last.op = "logout" /\ last.token = i.pair.accessToken
             /\ last.status \notin {401, 403, 429})
                => /\ ~HasActiveRecord(t)
                   /\ refreshTokensOutcome(t).error = NotFoundOrInactive

(* C19: refreshTokens with a token whose signature does not verify or whose
   signed expiry has passed fails with the verification error and leaves
   storage alone: no record is changed or inserted, no audit entry is
   written and no pair is handed out, whatever the table holds for it. *)
C19_VerifyBeforeStorage ==
    \A t \in TokenInputs :
        (t.sig # JWT_REFRESH_SECRET \/ now >= t.exp)
            => LET r == refreshTokensOutcome(t)
               IN  /\ r.error = InvalidOrExpired
                   /\ r.tbl = refresh_tokens
                   /\ r.logs = <<>>
                   /\ r.newId = 0
                   /\ r.pair = NoPair

(* An issued token past its signed expiry whose record is still active, and
   the call refused on verification *)
C19_Witness ==
    \E t \in IssuedRefreshTokens :
        /\ now >= t.exp
        /\ HasActiveRecord(t)
        /\ refreshTokensOutcome(t).error = InvalidOrExpired
        /\ refreshTokensOutcome(ForgedRefreshToken).error = InvalidOrExpired

(* ---------------------------------------------------------------------- *)
(* createTokenPair on a server whose local time zone changes its offset    *)
(* ---------------------------------------------------------------------- *)

(* expiresAt is computed with Date.setDate(getDate() + 7), seven calendar days
   in the server's local time, while the token is signed with expiresIn '7d',
   604800 seconds. When the zone's offset changes inside those days the
   stored expiry lies DstShift before or after the signed one. *)
createTokenPairInZone(userId, shift) ==
    LET r == createTokenPairOn(userId, refresh_tokens)
    IN  /\ r.error = "" => nextId <= MaxRecords
        /\ refresh_tokens' = IF r.newId # 0
                              THEN [r.tbl EXCEPT ![r.newId].expiresAt = @ + shift]
                              ELSE r.tbl
        /\ audit_logs' = audit_logs \o r.logs
        /\ nextId' = IF r.newId # 0 THEN nextId + 1 ELSE nextId
        /\ issued' = IF r.error = "" THEN issued \cup {[userId |-> userId, pair |-> r.pair]}
                      ELSE issued
        /\ UNCHANGED <<users, now, ticks, nextNonce, refreshOk, revokedBefore, outsideJwt>>

NextLocalTime ==
    \/ \E u \in UserIds : createTokenPair(u)
    \/ \E u \in UserIds, shift \in {0 - DstShift, DstShift} : createTokenPairInZone(u, shift)
    \/ \E t \in TokenInputs : refreshTokens(t)
    \/ \E d \in {1, RefreshTTL - DstShift} : Tick(d)

SpecLocalTime == Init /\ [][NextLocalTime]_vars

(* C20: when refreshTokens is given a correctly signed, unexpired token whose
   active record has a stored expiresAt earlier than now, it deactivates that
   record, fails with 'Refresh token expired' and hands out no pair; and a
   token is refused as soon as either its signed expiry or its record's
   stored expiry has passed. *)
C20_StoredExpiryRejects ==
    \A t \in TokenInputs :
        LET id == findActiveByHash(refresh_tokens, hashToken(t))
            r == refreshTokensOutcome(t)
            storedPassed == IF id = 0 THEN FALSE ELSE refresh_tokens[id].expiresAt < now
        IN  /\ (t.sig = JWT_REFRESH_SECRET /\ now < t.exp /\ storedPassed)
                   => /\ r.error = "Refresh token expired"
                      /\ DOMAIN r.tbl = DOMAIN refresh_tokens
                      /\ ~r.tbl[id].isActive
                      /\ \A other \in DOMAIN refresh_tokens \ {id} :
                             r.tbl[other] = refresh_tokens[other]
                      /\ r.pair = NoPair /\ r.newId = 0 /\ r.logs = <<>>
            /\ (now >= t.exp \/ storedPassed) => r.error # ""

(* A record that refreshTokens has deactivated on its stored expiry (inactive,
   never used, nothing in this specification revokes) while the token's
   signed expiry is still ahead *)
C20_Witness ==
    \E id \in DOMAIN refresh_tokens :
        /\ ~refresh_tokens[id].isActive
        /\ refresh_tokens[id].lastUsedAt = NULL
        /\ refresh_tokens[id].expiresAt < now
        /\ now < refresh_tokens[id].token.exp
        /\ refreshTokensOutcome(refresh_tokens[id].token).error = NotFoundOrInactive

(* C21: a refreshTokens call that succeeds leaves the presented token's
   record inactive with lastUsedAt set, adds exactly one record, active and
   owned by the same user, appends a TOKEN_REFRESH_CREATED entry and then a
   TOKEN_REFRESHED entry that refers to the old record's id, and returns a
   pair with expiresIn = 900. *)
C21_RotationEffects ==
    \A t \in TokenInputs :
        LET r == refreshTokensOutcome(t)
            id == findActiveByHash(refresh_tokens, hashToken(t))
        IN  r.error = ""
                => /\ id # 0
                   /\ ~r.tbl[id].isActive
                   /\ r.tbl[id].lastUsedAt # NULL
                   /\ DOMAIN r.tbl \ DOMAIN refresh_tokens = {r.newId}
                   /\ DOMAIN refresh_tokens \subseteq DOMAIN r.tbl
                   /\ r.tbl[r.newId].isActive
                   /\ r.tbl[r.newId].userId = refresh_tokens[id].userId
                   /\ r.tbl[r.newId].token = r.pair.refreshToken
                   /\ Len(r.logs) = 2
                   /\ r.logs[1].action = "TOKEN_REFRESH_CREATED"
                   /\ r.logs[1].actorId = refresh_tokens[id].userId
                   /\ r.logs[2].action = "TOKEN_REFRESHED"
                   /\ r.logs[2].actorId = refresh_tokens[id].userId
                   /\ r.logs[2].ref = id
                   /\ r.pair.expiresIn = 900

(* A rotation that has happened: the accepted token's record is inactive and
   used, and the log holds the two entries one after the other *)
C21_Witness ==
    \E t \in Range(refreshOk) : \E id \in DOMAIN refresh_tokens :
        /\ refresh_tokens[id].token = t
        /\ ~refresh_tokens[id].isActive
        /\ refresh_tokens[id].lastUsedAt # NULL
        /\ \E k \in 1..(Len(audit_logs) - 1) :
              /\ audit_logs[k].action = "TOKEN_REFRESH_CREATED"
              /\ audit_logs[k + 1].action = "TOKEN_REFRESHED"
              /\ audit_logs[k + 1].ref = id

(* C22: createTokenPair for a user id that has no row in users fails with
   'User not found', inserts no refresh-token record and appends no audit
   entry. *)
C22_UnknownUserNoEffect ==
    \A userId \in (UserIds \cup {GhostUser}) \ DOMAIN users :
        LET r == createTokenPairOn(userId, refresh_tokens)
        IN  /\ r.error = "User not found"
            /\ r.tbl = refresh_tokens
            /\ r.logs = <<>>
            /\ r.newId = 0
            /\ r.pair = NoPair

(* The call for the unknown user refused while the table holds records and
   could take another *)
C22_Witness ==
    /\ GhostUser \notin DOMAIN users
    /\ createTokenPairOn(GhostUser, refresh_tokens).error = "User not found"
    /\ refresh_tokens # <<>>
    /\ nextId <= MaxRecords
    /\ \E u \in UserIds : createTokenPairOn(u, refresh_tokens).error = ""

(* C23: revokeRefreshToken(token, userId) deactivates the record whose hash
   is the token's and, when a userId is given, only if the record is that
   user's; every other record is left as it was. A token of another user
   stays active and the call fails with 'Refresh token not found', as does a
   call that matches no record, which changes nothing. *)
C23_RevokeScoped ==
    \A t \in TokenInputs : \A u \in UserIds \cup {NoUser} :
        LET r == revokeRefreshTokenOutcome(t, u)
            mine == {id \in DOMAIN refresh_tokens :
                        /\ refresh_tokens[id].tokenHash = hashToken(t)
                        /\ (u = NoUser \/ refresh_tokens[id].userId = u)}
        IN  /\ DOMAIN r.tbl = DOMAIN refresh_tokens
            /\ \A id \in DOMAIN refresh_tokens \ mine : r.tbl[id] = refresh_tokens[id]
            /\ \A id \in mine :
                  r.tbl[id] = [refresh_tokens[id] EXCEPT !.isActive = FALSE]
            /\ (mine = {}) => (r.error = "Refresh token not found" /\ r.tbl = refresh_tokens)
            /\ (mine # {}) => r.error = ""

(* A token of u1 with an active record which u2 may not revoke, beside a
   record that a single revocation has deactivated *)
C23_Witness ==
    /\ \E t \in IssuedTo("u1") :
          /\ HasActiveRecord(t)
          /\ revokeRefreshTokenOutcome(t, "u2").error = "Refresh token not found"
          /\ revokeRefreshTokenOutcome(t, "u1").error = ""
    /\ \E id \in DOMAIN refresh_tokens :
          /\ ~refresh_tokens[id].isActive
          /\ refresh_tokens[id].lastUsedAt = NULL
          /\ refresh_tokens[id].token \notin revokedBefore
          /\ now < refresh_tokens[id].expiresAt

(* C24: a step that deletes refresh-token records deletes exactly the records
   that are inactive and past their stored expiry, leaves every remaining
   record as it was, and leaves nothing that a second run at the same time
   would delete. *)
C24_CleanupExact ==
    [][(DOMAIN refresh_tokens \ DOMAIN refresh_tokens' # {})
          => /\ \A id \in DOMAIN refresh_tokens :
                   (id \notin DOMAIN refresh_tokens')
                       <=> (~refresh_tokens[id].isActive /\ refresh_tokens[id].expiresAt < now)
             /\ \A id \in DOMAIN refresh_tokens' :
                   id \in DOMAIN refresh_tokens /\ refresh_tokens'[id] = refresh_tokens[id]
             /\ \A id \in DOMAIN refresh_tokens' :
                   refresh_tokens'[id].isActive \/ refresh_tokens'[id].expiresAt >= now']_vars

(* cleanupExpiredTokens has deleted a record and kept another that is
   inactive but not yet expired *)
C24_Witness ==
    /\ \E id \in 1..(nextId - 1) : id \notin DOMAIN refresh_tokens
    /\ \E id \in DOMAIN refresh_tokens :
          ~refresh_tokens[id].isActive /\ refresh_tokens[id].expiresAt >= now

(* C25: refreshTokens(t) and revokeRefreshToken(t, u) change no record but
   t's own, refreshTokens adding at most the one record it inserts: every
   other record, of the same user or of another, keeps all its fields; so
   the several active tokens a user may hold are independent. *)
C25_OtherRecordsUntouched ==
    \A t \in TokenInputs :
        LET others == {id \in DOMAIN refresh_tokens :
                          refresh_tokens[id].tokenHash # hashToken(t)}
            r == refreshTokensOutcome(t)
        IN  /\ \A id \in others : id \in DOMAIN r.tbl /\ r.tbl[id] = refresh_tokens[id]
            /\ DOMAIN r.tbl \ DOMAIN refresh_tokens \subseteq {r.newId}
            /\ \A u \in UserIds \cup {NoUser} :
                  LET v == revokeRefreshTokenOutcome(t, u)
                  IN  /\ DOMAIN v.tbl = DOMAIN refresh_tokens
                      /\ \A id \in others : v.tbl[id] = refresh_tokens[id]

(* One user with two active records while a third record of that user has
   been rotated or revoked *)
C25_Witness ==
    \E a, b, c \in DOMAIN refresh_tokens :
        /\ a # b /\ a # c /\ b # c
        /\ refresh_tokens[a].userId = refresh_tokens[b].userId
        /\ refresh_tokens[a].userId = refresh_tokens[c].userId
        /\ refresh_tokens[a].isActive /\ refresh_tokens[b].isActive
        /\ ~refresh_tokens[c].isActive
        /\ refresh_tokens[c].token \notin revokedBefore

(* C26: when a refreshTokens call and revokeAllRefreshTokens(u) have
   interleaved and every call has finished, no record that was created by
   refreshing a token issued before the revocation is active. *)
C26_RevocationNotOutrun ==
    (\A p \in Procs : procs[p].pc \in {"idle", "done"})
        => \A p \in Procs :
              (Returned(p) /\ procs[p].token \in revokedBefore)
                  => ~refresh_tokens[procs[p].newId].isActive

(* ---------------------------------------------------------------------- *)
(* PasswordService.resetPassword, one database round trip at a time         *)
(* (specification SpecResetRace)                                            *)
(* ---------------------------------------------------------------------- *)

resetFrame == <<now, ticks, nextId, nextNonce, issued, refreshOk, revokedBefore,
                accountGhost, last, client>>

(* The SELECT by reset token, the expiry check on the row read and the
   hashing of the new password with a random salt *)
resetSelect(p, resetToken, newPassword, salt) ==
    /\ procs[p].pc = "idle"
    /\ LET userId == findUserByResetToken(resetToken)
           me == [procs[p] EXCEPT !.resetToken = resetToken]
       IN  procs' = [procs EXCEPT ![p] =
               IF userId = NoUser
               THEN [me EXCEPT !.pc = "done", !.error = "Invalid or expired reset token"]
               ELSE IF users[userId].passwordResetExpires = NULL
                       \/ users[userId].passwordResetExpires < now
               THEN [me EXCEPT !.pc = "done", !.error = "Reset token has expired"]
               ELSE IF hashPasswordError(newPassword) # ""
               THEN [me EXCEPT !.pc = "done", !.error = hashPasswordError(newPassword)]
               ELSE [me EXCEPT !.pc = "hashed", !.userId = userId,
                               !.newPasswordHash = hashPassword(newPassword, salt)]]
    /\ UNCHANGED <<users, refresh_tokens, audit_logs, resetFrame>>

(* UPDATE users SET password_hash = ..., password_reset_token = null, ...
   WHERE id = user.id *)
resetUpdate(p) ==
    /\ procs[p].pc = "hashed"
    /\ users' = [users EXCEPT ![procs[p].userId] =
                     resetPasswordUpdate(@, procs[p].newPasswordHash)]
    /\ procs' = [procs EXCEPT ![p].pc = "updated"]
    /\ UNCHANGED <<refresh_tokens, audit_logs, resetFrame>>

(* the PASSWORD_RESET audit entry *)
resetAudit(p) ==
    /\ procs[p].pc = "updated"
    /\ audit_logs' = Append(audit_logs, AuditEntry(procs[p].userId, "PASSWORD_RESET", TRUE, 0))
    /\ procs' = [procs EXCEPT ![p].pc = "audited"]
    /\ UNCHANGED <<users, refresh_tokens, resetFrame>>

(* JWTService.revokeAllRefreshTokens(user.id); the call returns *)
resetRevoke(p) ==
    /\ procs[p].pc = "audited"
    /\ refresh_tokens' = revokeAllOn(refresh_tokens, procs[p].userId)
    /\ procs' = Done(p, "")
    /\ UNCHANGED <<users, audit_logs, resetFrame>>

ResetSalts == {5, 6}

NextResetRace ==
    \/ \E email \in Emails : generatePasswordResetToken(email)
    \/ \E p \in Procs, resetToken \in ResetInputs, newPassword \in NewPasswords,
           salt \in ResetSalts : resetSelect(p, resetToken, newPassword, salt)
    \/ \E p \in Procs : resetUpdate(p)
    \/ \E p \in Procs : resetAudit(p)
    \/ \E p \in Procs : resetRevoke(p)
    \/ \E d \in {1, ResetTTL} : Tick(d)

SpecResetRace == Init /\ [][NextResetRace]_vars

(* The call has replaced the password digest *)
DigestReplaced(p) == procs[p].pc \in {"updated", "audited", "done"} /\ procs[p].error = ""

(* C27: of two resetPassword calls that present the same reset token, however
   their SELECT and UPDATE interleave, at most one replaces the password
   digest. *)
C27_OneResetPerToken ==
    \A p, q \in Procs :
        (p # q /\ procs[p].resetToken = procs[q].resetToken /\ DigestReplaced(p))
            => ~DigestReplaced(q)

(* C28: whenever refreshTokens fails for a reason other than the token being
   invalid, expired or without an active record, the token's record is
   still active afterwards. *)
C28_FailureKeepsToken ==
    \A t \in TokenInputs :
        LET r == refreshTokensOutcome(t)
        IN  r.error \notin {"", InvalidOrExpired, NotFoundOrInactive, "Refresh token expired"}
                => findActiveByHash(r.tbl, hashToken(t)) # 0

(* C29: createTokenPair for an existing user always succeeds, and the token it
   stores differs in value and hash from every record already stored, also
   when another pair was issued in the same clock second. *)
C29_AlwaysFreshToken ==
    \A userId \in UserIds \cap DOMAIN users :
        LET r == createTokenPairOn(userId, refresh_tokens)
        IN  /\ r.error = ""
            /\ r.newId \in DOMAIN r.tbl
            /\ \A id \in DOMAIN refresh_tokens :
                  /\ refresh_tokens[id].token # r.tbl[r.newId].token
                  /\ refresh_tokens[id].tokenHash # r.tbl[r.newId].tokenHash

(* The refreshAccessToken callers that started a refresh and have returned *)
OwnersDone ==
    {c \in Callers : /\ client.callers[c].pc = "done"
                     /\ client.callers[c].method = "refreshAccessToken"
                     /\ client.callers[c].during = 0}

(* C30: the manager does not stay in the refreshing state. The flag and the
   stored promise are set together and only while the caller that started
   the refresh has not yet returned; once it has returned, however the
   refresh settled, the manager no longer holds that promise; and a
   refreshAccessToken call joins a promise only while that promise is
   pending, so a call made after a refresh has settled starts a new one. *)
C30_NeverStuckRefreshing ==
    /\ [](/\ client.isRefreshing <=> client.refreshPromise # 0
          /\ client.refreshPromise # 0
                => \E c \in Callers : /\ client.callers[c].pc = "owner"
                                      /\ client.callers[c].awaiting = client.refreshPromise
          /\ \A c \in OwnersDone : client.refreshPromise # client.callers[c].awaiting)
    /\ [][\A c \in Callers :
             (client.callers[c].pc = "idle" /\ client'.callers[c].pc = "joined")
                 => client'.callers[c].awaiting \in Pending]_vars

(* A refresh that ended in a rejection, its caller returned, and a later call
   that has started a second refresh *)
C30_Witness ==
    /\ Len(client.promises) = 2
    /\ client.promises[1].settled = "rejected"
    /\ \E c \in OwnersDone : client.callers[c].awaiting = 1
    /\ client.refreshPromise = 2
    /\ client.isRefreshing

====
